---- MODULE Spec2Model ----
(***************************************************************************)
(* Sports card checklist application: the upload (ingestion) handler of    *)
(* app.js, the card-set listing of routes/card-set-api.js and the athlete  *)
(* summary of routes/athlete-api.js.                                       *)
(*                                                                         *)
(* Text is a sequence of atoms.  An atom is one character (" ", "_", "-",  *)
(* "/", a digit, a letter) or a whole word treated as a unit ("parallel",  *)
(* "Rookie").  String functions act atom by atom; substring tests          *)
(* (includes) are tests for an atom.                                       *)
(***************************************************************************)
EXTENDS Integers, Sequences, FiniteSets, TLC

\* JS undefined / SQL NULL: a value no text is equal to.
Null == <<"NULL">>

------------------------------------------------------------------------------
(* Text functions *)

\* String.prototype.toLowerCase / SQL LOWER, atom by atom.
LowerAtom(a) ==
  CASE a = "A" -> "a"
    [] a = "B" -> "b"
    [] a = "C" -> "c"
    [] a = "Rookie" -> "rookie"
    [] a = "ROOKIE" -> "rookie"
    [] a = "Jane" -> "jane"
    [] a = "JANE" -> "jane"
    [] a = "Bo" -> "bo"
    [] a = "Parallel" -> "parallel"
    [] a = "Numbering" -> "numbering"
    [] a = "Athlete" -> "athlete"
    [] a = "Autograph" -> "autograph"
    [] a = "AUTOGRAPH" -> "autograph"
    [] a = "Relic" -> "relic"
    [] a = "Base" -> "base"
    [] a = "Insert" -> "insert"
    [] OTHER -> a

toLowerCase(s) == [i \in 1..Len(s) |-> LowerAtom(s[i])]

\* Atoms matched by [a-z0-9] once lowercased.
AlnumAtoms ==
  {"a", "b", "c", "0", "1", "2", "3", "5", "9", "rookie", "jane", "bo",
   "parallel", "numbering", "athlete", "autograph", "relic", "base", "insert"}

RECURSIVE TrimLeft(_)
TrimLeft(s) == IF s # <<>> /\ Head(s) = " " THEN TrimLeft(Tail(s)) ELSE s

RECURSIVE TrimRight(_)
TrimRight(s) ==
  IF s # <<>> /\ s[Len(s)] = " " THEN TrimRight(SubSeq(s, 1, Len(s) - 1)) ELSE s

\* String.prototype.trim / SQL TRIM.
trim(s) == TrimRight(TrimLeft(s))

\* String.prototype.includes for a one-atom needle.
includes(s, atom) == \E i \in 1..Len(s) : s[i] = atom

\* replace(/\s+/g, '_'): every run of whitespace becomes one underscore.
RECURSIVE CollapseSpaces(_)
CollapseSpaces(s) ==
  IF s = <<>> THEN <<>>
  ELSE IF Head(s) = " "
       THEN <<"_">> \o CollapseSpaces(TrimLeft(s))
       ELSE <<Head(s)>> \o CollapseSpaces(Tail(s))

\* app.js mapHeaders: header.trim().toLowerCase().replace(/\s+/g, '_').
mapHeaders(header) == CollapseSpaces(toLowerCase(trim(header)))

\* sanitizeFileName: String(name || '').toLowerCase().replace(/[^a-z0-9]/gi, '_').
sanitizeFileName(name) ==
  LET s == toLowerCase(IF name = Null THEN <<>> ELSE name)
  IN  [i \in 1..Len(s) |-> IF s[i] \in AlnumAtoms THEN s[i] ELSE "_"]

\* `${sanitizeFileName(sport)}_${sanitizeFileName(setName)}.db`
dbNameOf(sport, setName) ==
  sanitizeFileName(sport) \o <<"_">> \o sanitizeFileName(setName) \o <<".db">>

------------------------------------------------------------------------------
(* Rows as csv-parser delivers them *)

Min(a, b) == IF a < b THEN a ELSE b

\* csv-parser row object: key headers[i] holds cells[i]; with a repeated
\* header the later cell overwrites the earlier; a short line leaves the
\* trailing keys unset.
RowObj(headers, cells) ==
  LET n == Min(Len(headers), Len(cells))
      last(h) == CHOOSE i \in 1..n :
                   headers[i] = h /\ \A j \in 1..n : headers[j] = h => j <= i
  IN  [h \in {headers[i] : i \in 1..n} |-> cells[last(h)]]

\* row[header]: undefined when the key is unset.
Cell(row, header) == IF header \in DOMAIN row THEN row[header] ELSE Null

\* JS truthiness of a cell: undefined and '' are falsy.
Truthy(v) == v # Null /\ v # <<>>

\* a || b
Or(a, b) == IF Truthy(a) THEN a ELSE b

hCardNumber == <<"card", "_", "number">>
hAthleteFullName == <<"athlete", "_", "full", "_", "name">>
hAthleteName == <<"athlete", "_", "name">>
hAthlete == <<"athlete">>
hRookie == <<"rookie">>
hSubset == <<"subset">>
hType == <<"type">>
hCardType == <<"card", "_", "type">>

\* Faulty variant of AthleteNameOf: the priority list read in the wrong order.
AthleteNameOfReversed(row) ==
  Or(Cell(row, hAthlete), Or(Cell(row, hAthleteName), Cell(row, hAthleteFullName)))

\* row['athlete_full_name'] || row['athlete_name'] || row['athlete']
AthleteNameOf(row) ==
  Or(Cell(row, hAthleteFullName), Or(Cell(row, hAthleteName), Cell(row, hAthlete)))

\* row['type'] || row['card_type']
CardTypeOf(row) == Or(Cell(row, hType), Cell(row, hCardType))

\* The parameter list of insertCard.run plus the AUTOINCREMENT id.
CardRecord(id, row) ==
  [id |-> id,
   card_number |-> Cell(row, hCardNumber),
   athlete_name |-> AthleteNameOf(row),
   rookie |-> Cell(row, hRookie),
   subset |-> Cell(row, hSubset),
   card_type |-> CardTypeOf(row)]

------------------------------------------------------------------------------
(* The parallel pairing scan *)

\* h.includes('parallel') && !h.includes('numbering')
isParallelName(header) ==
  LET h == toLowerCase(header)
  IN  includes(h, "parallel") /\ ~includes(h, "numbering")

\* Faulty variant of parallelNumbering: the next header is taken as the numbering
\* column without testing its name.
parallelNumberingUnchecked(headers, row, idx) ==
  IF idx + 1 <= Len(headers) THEN Cell(row, headers[idx + 1]) ELSE <<>>

\* numberingHeader && includes('numbering') ? row[numberingHeader] : ''
parallelNumbering(headers, row, idx) ==
  IF idx + 1 <= Len(headers)
     /\ headers[idx + 1] # <<>>
     /\ includes(toLowerCase(headers[idx + 1]), "numbering")
  THEN Cell(row, headers[idx + 1])
  ELSE <<>>

\* headers.forEach((header, idx) => ...): the insertParallel.run parameter
\* lists issued for one row, in header order, from position idx on.
RECURSIVE ScanFrom(_, _, _, _)
ScanFrom(headers, row, cardId, idx) ==
  IF idx > Len(headers) THEN <<>>
  ELSE (IF isParallelName(headers[idx]) /\ Truthy(Cell(row, headers[idx]))
        THEN << [card_id |-> cardId,
                 parallel_name |-> Cell(row, headers[idx]),
                 parallel_numbering |-> parallelNumbering(headers, row, idx)] >>
        ELSE <<>>)
       \o ScanFrom(headers, row, cardId, idx + 1)

ParallelWrites(headers, row, cardId) == ScanFrom(headers, row, cardId, 1)

------------------------------------------------------------------------------
(* Set stores: one SQLite file per database name in the data directory *)

CardsColumns == {"id", "card_number", "athlete_name", "rookie", "subset", "card_type"}
ParallelsColumns == {"id", "card_id", "parallel_name", "parallel_numbering"}

\* No file of that name in the data directory.
NoStore ==
  [exists |-> FALSE, cardsCols |-> {}, parCols |-> {}, cards |-> <<>>, parallels |-> <<>>]

\* The file after the two CREATE TABLE statements.
EmptyStore ==
  [exists |-> TRUE, cardsCols |-> CardsColumns, parCols |-> ParallelsColumns,
   cards |-> <<>>, parallels |-> <<>>]

\* Faulty variant of ReplaceStore: the old file is not unlinked, so the new rows
\* are added to what it held.
ReplaceStoreKeepOld(old) == IF old.exists THEN old ELSE EmptyStore

\* if (fs.existsSync(dbPath)) fs.unlinkSync(dbPath); new sqlite3.Database;
\* CREATE TABLE cards; CREATE TABLE parallels.
ReplaceStore(old) == EmptyStore

\* INTEGER PRIMARY KEY AUTOINCREMENT on a table that never deletes.
NextId(table) == Len(table) + 1

------------------------------------------------------------------------------
(* Inputs *)

MaxRows == 3

Jane == <<"Jane", " ", "b">>
JaneUpper == <<"JANE", " ", "b">>
Bo == <<"Bo">>
Gold == <<"a">>
Red == <<"b">>

\* Header lines as typed in the file, before mapHeaders.
HeaderLineA ==
  << <<" ", "Athlete", "_", "full", "_", "name">>, hAthleteName, hType, hCardType,
     <<"Parallel", " ", " ", "1">>, <<"parallel", "_", "1", "_", "Numbering", " ">> >>
HeaderLineB == << hAthlete, hRookie, hSubset, <<"parallel", "_", "1">>, <<"parallel", "_", "2">> >>

RowPool(headerLine) ==
  IF headerLine = HeaderLineA
  THEN { <<Jane, Bo, <<"Base">>, <<"Insert">>, Gold, <<"2", "5">>>>,
         <<<<>>, Bo, <<>>, <<"Insert">>, Red, <<>>>> }
  ELSE { <<Bo, <<"Rookie">>, <<"Autograph">>, Gold, Red>>,
         <<JaneUpper, <<>>, <<"Base">>, <<>>>> }

RECURSIVE SeqsUpTo(_, _)
SeqsUpTo(S, n) ==
  IF n = 0 THEN {<<>>}
  ELSE LET shorter == SeqsUpTo(S, n - 1)
       IN  shorter \cup {Append(q, x) : q \in {t \in shorter : Len(t) = n - 1}, x \in S}

Files ==
  {[headerLine |-> h, lines |-> l] :
     h \in {HeaderLineA}, l \in SeqsUpTo(RowPool(HeaderLineA), MaxRows)}
  \cup
  {[headerLine |-> h, lines |-> l] :
     h \in {HeaderLineB}, l \in SeqsUpTo(RowPool(HeaderLineB), MaxRows)}

NoFile == [headerLine |-> <<>>, lines |-> <<>>]

\* The (sport, setName) fields of upload forms; '' is a missing field.
Requests ==
  { << <<"A", " ", "b">>, <<"c">> >>,
    << <<>>, <<"c">> >>,
    << <<"a">>, <<>> >> }

\* Upload forms for several sets of several sports.
SetRequests ==
  { << <<"a">>, <<"c">> >>,
    << <<"a", " ", "b">>, <<"c">> >>,
    << <<"a">>, <<"b", " ", "c">> >>,
    << <<"b">>, <<"2", "3">> >> }

\* The files uploaded for them.
SetFiles == {f \in Files : f.headerLine = HeaderLineB /\ Len(f.lines) <= 1}

\* ?sport= of GET /api/card-sets; '' is a missing parameter.
Sports == {r[1] : r \in SetRequests} \cup {<<>>}

DbNames ==
  {dbNameOf(r[1], r[2]) : r \in {q \in Requests \cup SetRequests : q[1] # <<>> /\ q[2] # <<>>}}

------------------------------------------------------------------------------
(* State *)

VARIABLES
  data,     \* the data directory: database name -> store
  up,       \* the upload request being served and its database connection
  uploaded, \* history: the (sport, setName) forms accepted so far
  listed,   \* the last response of GET /api/card-sets
  scan,     \* one header line and one row, and the Parallel writes issued for it
  query     \* one athlete-summary request: the store read and the response

vars == <<data, up, uploaded, listed, scan, query>>

NoRun == [row |-> 0, ok |-> FALSE, id |-> 0]

IdleUpload ==
  [phase |-> "idle", sport |-> <<>>, setName |-> <<>>, db |-> <<>>,
   file |-> NoFile, headers |-> <<>>, rows |-> <<>>,
   pending |-> 0,
   cardQ |-> <<>>,       \* insertCard runs queued on the statement (row numbers)
   run |-> NoRun,        \* the insertCard run executed and not yet called back
   parQ |-> <<>>,        \* insertParallel runs queued on the statement
   lastRowid |-> 0,      \* sqlite3_last_insert_rowid of the connection
   closing |-> FALSE,    \* finalize/finalize/close have been requested
   closed |-> FALSE,
   tmp |-> FALSE,        \* the temporary uploaded file exists
   status |-> 0,         \* HTTP status sent, 0 while none
   logged |-> 0,         \* console.error calls
   acked |-> {},         \* rows whose insertCard callback got an id
   oldCards |-> 0,       \* history: the cards of the store this upload replaced
   cardRow |-> <<>>,     \* history: cards[i] was created from row cardRow[i]
   parRow |-> <<>>]      \* history: parallels[k] was issued for row parRow[k]

NoScan == [headerLine |-> <<>>, line |-> <<>>, cardId |-> 0, done |-> FALSE, out |-> <<>>]

NoResponse ==
  [status |-> 0, athlete |-> <<>>, isRookie |-> FALSE, cardTypeCount |-> 0,
   totalParallelCards |-> 0, autographCount |-> 0, autographRelicCount |-> 0,
   breakdown |-> <<>>]

NoQuery == [store |-> NoStore, athlete |-> <<>>, done |-> FALSE, res |-> NoResponse]

\* The server after start-up: an empty data directory, no request served.
InitServer ==
  /\ data = [n \in DbNames |-> NoStore]
  /\ up = IdleUpload
  /\ uploaded = {}
  /\ listed = [sport |-> <<>>, status |-> 0, sets |-> <<>>]

Init ==
  /\ InitServer
  /\ scan = NoScan
  /\ query = NoQuery

\* Nothing of the request in service is queued or running in the store.
\* Upload requests are served one after the other: the next one is taken
\* when the one before has settled, completed or not.
Settled ==
  /\ up.phase # "reading"
  /\ up.cardQ = <<>>
  /\ up.run = NoRun
  /\ up.parQ = <<>>
  /\ up.closing => up.closed

\* POST /upload-checklist up to the start of the read stream.
PostUpload(sport, setName, file) ==
  /\ Settled
  /\ IF sport = <<>> \/ setName = <<>>
     THEN /\ up' = [IdleUpload EXCEPT !.phase = "rejected", !.sport = sport,
                      !.setName = setName, !.tmp = TRUE, !.status = 400]
          /\ UNCHANGED <<data, uploaded>>
     ELSE LET db == dbNameOf(sport, setName)
          IN  /\ uploaded' = uploaded \cup {<<sport, setName>>}
              /\ data' = [data EXCEPT ![db] = ReplaceStore(data[db])]
              /\ up' = [IdleUpload EXCEPT !.phase = "reading", !.sport = sport,
                          !.setName = setName, !.db = db, !.file = file, !.tmp = TRUE,
                          !.oldCards = Len(data[db].cards)]
  /\ UNCHANGED <<listed, scan, query>>

\* insertCard.finalize(); insertParallel.finalize(); db.close();
\* fs.unlinkSync(filePath); res.redirect(...)
Finish(u) == [u EXCEPT !.closing = TRUE, !.tmp = FALSE, !.status = 302]

\* The stream's 'headers', 'data' and 'end' events.
StreamEnd ==
  /\ up.phase = "reading"
  /\ LET headers == [i \in 1..Len(up.file.headerLine) |-> mapHeaders(up.file.headerLine[i])]
         rows == [i \in 1..Len(up.file.lines) |-> RowObj(headers, up.file.lines[i])]
         u == [up EXCEPT !.phase = "writing", !.headers = headers, !.rows = rows,
                 !.pending = Len(rows)]
     IN  up' = IF Len(rows) = 0
               THEN Finish(u)
               ELSE [u EXCEPT !.cardQ = [i \in 1..Len(rows) |-> i]]
  /\ UNCHANGED <<data, uploaded, listed, scan, query>>

\* The store executes the next queued insertCard run; it succeeds or fails.
CardExec ==
  /\ up.cardQ # <<>>
  /\ up.run = NoRun
  /\ LET r == Head(up.cardQ)
         id == NextId(data[up.db].cards)
     IN  \E ok \in BOOLEAN :
           IF ok
           THEN /\ data' = [data EXCEPT ![up.db].cards = Append(@, CardRecord(id, up.rows[r]))]
                /\ up' = [up EXCEPT !.cardQ = Tail(@), !.run = [row |-> r, ok |-> TRUE, id |-> id],
                            !.lastRowid = id, !.cardRow = Append(@, r)]
           ELSE /\ up' = [up EXCEPT !.cardQ = Tail(@), !.run = [row |-> r, ok |-> FALSE, id |-> 0]]
                /\ UNCHANGED data
  /\ UNCHANGED <<uploaded, listed, scan, query>>

\* Faulty variant of lastID: the connection's last insert rowid read when the
\* callback runs, instead of the rowid of this run.
lastIDOfConnection(u) == u.lastRowid

\* this.lastID in the insertCard.run callback.
lastID(u) == u.run.id

\* The insertCard.run callback of the executed run.
CardCallback ==
  /\ up.run # NoRun
  /\ IF ~up.run.ok
     THEN up' = [up EXCEPT !.run = NoRun, !.logged = @ + 1]
     ELSE LET r == up.run.row
              cardId == lastID(up)
              writes == ParallelWrites(up.headers, up.rows[r], cardId)
              u == [up EXCEPT !.run = NoRun,
                      !.acked = @ \cup {r},
                      !.parQ = @ \o [k \in 1..Len(writes) |-> [w |-> writes[k], row |-> r]],
                      !.pending = @ - 1]
          IN  up' = IF u.pending = 0 THEN Finish(u) ELSE u
  /\ UNCHANGED <<data, uploaded, listed, scan, query>>

\* The store executes the next queued insertParallel run.
ParallelExec ==
  /\ up.parQ # <<>>
  /\ LET q == Head(up.parQ)
         id == NextId(data[up.db].parallels)
     IN  /\ data' = [data EXCEPT ![up.db].parallels =
                       Append(@, [id |-> id, card_id |-> q.w.card_id,
                                  parallel_name |-> q.w.parallel_name,
                                  parallel_numbering |-> q.w.parallel_numbering])]
         /\ up' = [up EXCEPT !.parQ = Tail(@), !.lastRowid = id, !.parRow = Append(@, q.row)]
  /\ UNCHANGED <<uploaded, listed, scan, query>>

\* The statements are finalized and the database closes once its queued
\* runs are done.
DbClose ==
  /\ up.closing /\ ~up.closed
  /\ up.cardQ = <<>> /\ up.run = NoRun /\ up.parQ = <<>>
  /\ up' = [up EXCEPT !.closed = TRUE]
  /\ UNCHANGED <<data, uploaded, listed, scan, query>>

------------------------------------------------------------------------------
(* GET /api/card-sets *)

startsWith(s, prefix) == Len(s) >= Len(prefix) /\ SubSeq(s, 1, Len(prefix)) = prefix

endsWith(s, atom) == s # <<>> /\ s[Len(s)] = atom

\* Collation order of the atoms database names are made of (localeCompare).
AtomOrder == <<".db", " ", "_", "0", "1", "2", "3", "5", "9", "a", "b", "c">>

Rank(a) == CHOOSE i \in 1..Len(AtomOrder) : AtomOrder[i] = a

\* a.localeCompare(b) < 0
RECURSIVE Before(_, _)
Before(s, t) ==
  IF t = <<>> THEN FALSE
  ELSE IF s = <<>> THEN TRUE
  ELSE IF Head(s) = Head(t) THEN Before(Tail(s), Tail(t))
  ELSE Rank(Head(s)) < Rank(Head(t))

\* Array.prototype.sort((a, b) => a.localeCompare(b)) of the mapped listing.
RECURSIVE Sorted(_)
Sorted(names) ==
  IF names = <<>> THEN <<>>
  ELSE LET m == CHOOSE i \in 1..Len(names) :
                  \A j \in 1..Len(names) : ~Before(names[j], names[i])
           rest == [k \in 1..(Len(names) - 1) |-> IF k < m THEN names[k] ELSE names[k + 1]]
       IN  <<names[m]>> \o Sorted(rest)

\* f.slice(sportPrefix.length, -3).replace(/_/g, ' '); ".db" is one atom.
DisplayName(f, sportPrefix) ==
  LET cut == SubSeq(f, Len(sportPrefix) + 1, Len(f) - 1)
  IN  [i \in 1..Len(cut) |-> IF cut[i] = "_" THEN " " ELSE cut[i]]

\* fs.readdirSync(dataDir): the file names, in collation order.
RECURSIVE ReadDir(_)
ReadDir(dir) ==
  IF dir = {} THEN <<>>
  ELSE LET m == CHOOSE x \in dir : \A y \in dir : ~Before(y, x)
       IN  <<m>> \o ReadDir(dir \ {m})

RECURSIVE Filter(_, _)
Filter(files, sportPrefix) ==
  IF files = <<>> THEN <<>>
  ELSE (IF startsWith(toLowerCase(Head(files)), sportPrefix) /\ endsWith(Head(files), ".db")
        THEN <<Head(files)>> ELSE <<>>)
       \o Filter(Tail(files), sportPrefix)

\* The names listed for a sport.
CardSets(dir, sport) ==
  LET sportPrefix == sanitizeFileName(sport) \o <<"_">>
      files == Filter(ReadDir(dir), sportPrefix)
  IN  Sorted([i \in 1..Len(files) |-> DisplayName(files[i], sportPrefix)])

\* The handler of GET /api/card-sets.
ListSets(sport) ==
  /\ listed' = IF sport = <<>>
               THEN [sport |-> sport, status |-> 400, sets |-> <<>>]
               ELSE [sport |-> sport, status |-> 200,
                     sets |-> CardSets({n \in DbNames : data[n].exists}, sport)]
  /\ UNCHANGED <<data, up, uploaded, scan, query>>

------------------------------------------------------------------------------
(* Specifications *)

\* Uploads to one set, over the whole file pool.
Next ==
  \/ \E r \in Requests, f \in Files : PostUpload(r[1], r[2], f)
  \/ StreamEnd
  \/ CardExec
  \/ CardCallback
  \/ ParallelExec
  \/ DbClose

Spec == Init /\ [][Next]_vars

\* Uploads to several sets of several sports, and the set listing.
NextSets ==
  \/ \E r \in SetRequests, f \in SetFiles : PostUpload(r[1], r[2], f)
  \/ StreamEnd
  \/ CardExec
  \/ CardCallback
  \/ ParallelExec
  \/ DbClose
  \/ \E sport \in Sports : ListSets(sport)

SpecSets == Init /\ [][NextSets]_vars

------------------------------------------------------------------------------
(* Ingestion: completion *)

\* C1: every upload completes: once nothing of the request is queued or
\* running in the store, the response has been sent, the temporary file
\* removed and the store closed, also when the Card write of some row
\* failed.
C1_UploadCompletes ==
  (up.phase = "writing" /\ Settled) => (up.status = 302 /\ ~up.tmp /\ up.closed)

------------------------------------------------------------------------------
(* Ingestion: attribution of Parallels to Cards *)

\* C2: a Parallel write is issued only for a row whose Card write has been
\* acknowledged with its identifier, and the card_id of every Parallel,
\* queued or stored, is the id of the Card created from the same row.
C2_ParallelOfOwnCard ==
  up.phase = "writing" =>
    LET st == data[up.db]
        cardOfRow(id, r) ==
          \E i \in 1..Len(st.cards) : st.cards[i].id = id /\ up.cardRow[i] = r
    IN  /\ \A k \in 1..Len(up.parQ) :
             /\ up.parQ[k].row \in up.acked
             /\ cardOfRow(up.parQ[k].w.card_id, up.parQ[k].row)
        /\ \A k \in 1..Len(st.parallels) :
             /\ up.parRow[k] \in up.acked
             /\ cardOfRow(st.parallels[k].card_id, up.parRow[k])

\* A Card write was executed, a Parallel write of an earlier row was
\* executed after it, and the Card's callback, which will issue Parallel
\* writes of its own, has not run yet.
C2_Witness ==
  /\ up.run.ok
  /\ up.lastRowid # up.run.id
  /\ data[up.db].parallels # <<>>
  /\ ParallelWrites(up.headers, up.rows[up.run.row], up.run.id) # <<>>

------------------------------------------------------------------------------
(* Ingestion: whole-file replace *)

\* The store a file describes: one Card per row, in row order, and the
\* Parallels of each row, in row then header order.
RECURSIVE ExpectedParallels(_, _, _)
ExpectedParallels(headers, rows, r) ==
  IF r > Len(rows) THEN <<>>
  ELSE ParallelWrites(headers, rows[r], r) \o ExpectedParallels(headers, rows, r + 1)

ExpectedStore(file) ==
  LET headers == [i \in 1..Len(file.headerLine) |-> mapHeaders(file.headerLine[i])]
      rows == [i \in 1..Len(file.lines) |-> RowObj(headers, file.lines[i])]
      ps == ExpectedParallels(headers, rows, 1)
  IN  [exists |-> TRUE, cardsCols |-> CardsColumns, parCols |-> ParallelsColumns,
       cards |-> [i \in 1..Len(rows) |-> CardRecord(i, rows[i])],
       parallels |-> [k \in 1..Len(ps) |->
                        [id |-> k, card_id |-> ps[k].card_id,
                         parallel_name |-> ps[k].parallel_name,
                         parallel_numbering |-> ps[k].parallel_numbering]]]

\* C3: once an upload whose row writes all succeeded has completed, the
\* store of its (sport, set) is the store its file describes, whatever the
\* store held before; so the same file uploaded again leaves the same store.
C3_WholeFileReplace ==
  (up.phase = "writing" /\ up.closed /\ up.logged = 0) =>
    data[up.db] = ExpectedStore(up.file)

\* A completed upload that replaced a store holding more cards than the
\* file has rows, and wrote Cards and Parallels.
C3_Witness ==
  /\ up.phase = "writing" /\ up.closed /\ up.logged = 0
  /\ up.oldCards > Len(up.file.lines)
  /\ Len(data[up.db].cards) >= 1
  /\ data[up.db].parallels # <<>>

------------------------------------------------------------------------------
(* Ingestion: identity fields *)

\* The first of the headers in priority that the file has.
FirstPresent(headers, priority) ==
  LET present == {k \in 1..Len(priority) : \E i \in 1..Len(headers) : headers[i] = priority[k]}
  IN  IF present = {} THEN priority[Len(priority)]
      ELSE priority[CHOOSE k \in present : \A j \in present : k <= j]

\* C9 as stated: every Card's athlete_name and card_type are the row's
\* cells under one column per file, the first header of the priority list
\* that the file has.
C9_OneColumnPerFile ==
  up.phase = "writing" =>
    LET st == data[up.db]
        athleteCol == FirstPresent(up.headers, <<hAthleteFullName, hAthleteName, hAthlete>>)
        typeCol == FirstPresent(up.headers, <<hType, hCardType>>)
    IN  \A i \in 1..Len(st.cards) :
          /\ st.cards[i].athlete_name = Cell(up.rows[up.cardRow[i]], athleteCol)
          /\ st.cards[i].card_type = Cell(up.rows[up.cardRow[i]], typeCol)

\* C9 amended: the fields are resolved row by row: athlete_name is the
\* row's athlete_full_name cell when that is non-empty, else its
\* athlete_name cell when that is non-empty, else its athlete cell;
\* card_type is the row's type cell when non-empty, else its card_type cell.
C9_FirstNonEmptyPerRow ==
  up.phase = "writing" =>
    LET st == data[up.db]
    IN  \A i \in 1..Len(st.cards) :
          LET row == up.rows[up.cardRow[i]]
              c == st.cards[i]
          IN  /\ Truthy(Cell(row, hAthleteFullName)) =>
                   c.athlete_name = Cell(row, hAthleteFullName)
              /\ (~Truthy(Cell(row, hAthleteFullName)) /\ Truthy(Cell(row, hAthleteName))) =>
                   c.athlete_name = Cell(row, hAthleteName)
              /\ (~Truthy(Cell(row, hAthleteFullName)) /\ ~Truthy(Cell(row, hAthleteName))) =>
                   c.athlete_name = Cell(row, hAthlete)
              /\ Truthy(Cell(row, hType)) => c.card_type = Cell(row, hType)
              /\ ~Truthy(Cell(row, hType)) => c.card_type = Cell(row, hCardType)

\* A stored Card of a row whose athlete_full_name cell is empty and whose
\* athlete_name cell is not, in a file that has both columns.
C9_Witness ==
  /\ up.phase = "writing"
  /\ \E i \in 1..Len(data[up.db].cards) :
       LET row == up.rows[up.cardRow[i]]
       IN  /\ Cell(row, hAthleteFullName) = <<>>
           /\ Truthy(Cell(row, hAthleteName))
           /\ data[up.db].cards[i].athlete_name = Cell(row, hAthleteName)

------------------------------------------------------------------------------
(* One store per (sport, set) *)

\* C10: a step serving an upload for one (sport, set) leaves the store of
\* every other (sport, set) that has been uploaded as it was.
C10_OtherStoresUntouched ==
  \A r \in uploaded :
    r # <<up'.sport, up'.setName>> =>
      data'[dbNameOf(r[1], r[2])] = data[dbNameOf(r[1], r[2])]

\* C10: every name the listing of a sport returns is the name of a set that
\* was uploaded under that sport.
C10_ListedUnderSport ==
  listed.status = 200 =>
    \A i \in 1..Len(listed.sets) :
      \E r \in uploaded :
        /\ r[1] = listed.sport
        /\ listed.sets[i] = DisplayName(sanitizeFileName(r[2]) \o <<".db">>, <<>>)

\* C10: each (sport, set) has its own store.
C10_OwnStorePerPair == [][C10_OtherStoresUntouched]_vars /\ []C10_ListedUnderSport

------------------------------------------------------------------------------
(* The pairing scan on any header line and row *)

MaxHeaders == 3

\* Headers as typed in a file.
ScanHeaderPool ==
  { <<"parallel", "_", "1">>,
    <<"Parallel", " ", "2", " ">>,
    <<"parallel", "_", "1", "_", "numbering">>,
    <<" ", "Numbering">>,
    hSubset }

ScanCells == { <<>>, Gold, <<"2", "5">> }

InitScan ==
  /\ InitServer
  /\ query = NoQuery
  /\ scan \in {[headerLine |-> h, line |-> l, cardId |-> 1, done |-> FALSE, out |-> <<>>] :
                 h \in SeqsUpTo(ScanHeaderPool, MaxHeaders),
                 l \in SeqsUpTo(ScanCells, MaxHeaders)}
  /\ Len(scan.line) <= Len(scan.headerLine)

\* The headers.forEach of the insertCard.run callback, for one row.
ScanRow ==
  /\ ~scan.done
  /\ LET headers == [i \in 1..Len(scan.headerLine) |-> mapHeaders(scan.headerLine[i])]
         row == RowObj(headers, scan.line)
     IN  scan' = [scan EXCEPT !.done = TRUE,
                    !.out = ParallelWrites(headers, row, scan.cardId)]
  /\ UNCHANGED <<data, up, uploaded, listed, query>>

NextScan == ScanRow

SpecScan == InitScan /\ [][NextScan]_vars

\* C4: the Parallel records of a row are, in header order, one for each
\* header that contains "parallel" and not "numbering" and has a non-empty
\* cell in the row; its name is that cell and its numbering is the row's
\* cell under the next header when that header contains "numbering", the
\* empty string otherwise, also when there is no next header.
C4_OneParallelPerNamedCell ==
  scan.done =>
    LET H == [i \in 1..Len(scan.headerLine) |-> mapHeaders(scan.headerLine[i])]
        row == RowObj(H, scan.line)
        named == {i \in 1..Len(H) :
                    /\ \E a \in 1..Len(H[i]) : H[i][a] = "parallel"
                    /\ \A a \in 1..Len(H[i]) : H[i][a] # "numbering"
                    /\ Cell(row, H[i]) \notin {Null, <<>>}}
        nth(k) == CHOOSE i \in named : Cardinality({j \in named : j < i}) = k - 1
    IN  /\ Len(scan.out) = Cardinality(named)
        /\ \A k \in 1..Len(scan.out) :
             LET i == nth(k)
             IN  /\ scan.out[k].card_id = scan.cardId
                 /\ scan.out[k].parallel_name = Cell(row, H[i])
                 /\ scan.out[k].parallel_numbering =
                      IF i < Len(H) /\ \E a \in 1..Len(H[i + 1]) : H[i + 1][a] = "numbering"
                      THEN Cell(row, H[i + 1])
                      ELSE <<>>

\* A row scanned to two Parallel records: one numbered by the cell under
\* the numbering header that follows, one whose header is the last.
C4_Witness ==
  /\ scan.done
  /\ Len(scan.out) = 2
  /\ scan.out[1].parallel_numbering = <<"2", "5">>
  /\ scan.out[2].parallel_numbering = <<>>
  /\ includes(mapHeaders(scan.headerLine[Len(scan.headerLine)]), "parallel")
  /\ ~includes(mapHeaders(scan.headerLine[Len(scan.headerLine)]), "numbering")
  /\ Len(scan.line) = Len(scan.headerLine)

------------------------------------------------------------------------------
(* GET /api/athlete-summary *)

\* String(c.name).toLowerCase() of a column name.
LowerName(c) == IF c = "Rookie" THEN "rookie" ELSE c

\* has(cols, name)
has(cols, name) == \E c \in cols : LowerName(c) = name

\* No column: null.
NoCol == ""

\* detectSchema.
detectSchema(store) ==
  [rookieCol |-> IF has(store.cardsCols, "rookie") THEN "rookie"
                 ELSE IF has(store.cardsCols, "is_rookie") THEN "is_rookie" ELSE NoCol,
   numberingCol |-> IF has(store.parCols, "parallel_numbering") THEN "parallel_numbering"
                    ELSE IF has(store.parCols, "numbering") THEN "numbering" ELSE NoCol]

\* The value of a column of a table row; SQL column names are matched
\* without regard to case.
Column(r, name) == r[CHOOSE c \in DOMAIN r : LowerName(c) = name]

\* SQL LOWER, TRIM and = : NULL in, NULL out; NULL = x is not true.
SqlLower(v) == IF v = Null THEN Null ELSE toLowerCase(v)
SqlTrim(v) == IF v = Null THEN Null ELSE trim(v)
SqlEq(a, b) == a # Null /\ b # Null /\ a = b

\* WHERE LOWER(athlete_name) = LOWER(?): the matching cards, by position.
Matching(store, athlete) ==
  {i \in 1..Len(store.cards) :
     SqlEq(SqlLower(store.cards[i].athlete_name), SqlLower(athlete))}

\* Faulty variant of RookieCase: the value compared without TRIM.
RookieCaseNoTrim(v) == IF SqlEq(SqlLower(v), <<"rookie">>) THEN 1 ELSE 0

\* CASE WHEN LOWER(TRIM(rookieCol)) = 'rookie' THEN 1 ELSE 0 END
RookieCase(v) == IF SqlEq(SqlLower(SqlTrim(v)), <<"rookie">>) THEN 1 ELSE 0

\* The rookie query and isRookie = !!(row && row.flag === 1); MAX over no
\* rows is NULL.
isRookieOf(store, rookieCol, athlete) ==
  IF rookieCol = NoCol THEN FALSE
  ELSE LET flags == {RookieCase(Column(store.cards[i], rookieCol)) : i \in Matching(store, athlete)}
       IN  flags # {} /\ (CHOOSE f \in flags : \A g \in flags : g <= f) = 1

\* The rows of cards LEFT JOIN parallels for the cards at positions i..,
\* in rowid order.
RECURSIVE JoinRows(_, _, _, _)
JoinRows(store, numberingCol, athlete, i) ==
  IF i > Len(store.cards) THEN <<>>
  ELSE LET c == store.cards[i]
           ps == SelectSeq(store.parallels, LAMBDA p : p.card_id = c.id)
       IN  (IF i \notin Matching(store, athlete) THEN <<>>
            ELSE IF ps = <<>>
            THEN << [subset |-> c.subset, card_type |-> c.card_type, numbering |-> Null] >>
            ELSE [k \in 1..Len(ps) |->
                    [subset |-> c.subset, card_type |-> c.card_type,
                     numbering |-> Column(ps[k], numberingCol)]])
           \o JoinRows(store, numberingCol, athlete, i + 1)

DigitValue(a) ==
  CASE a = "0" -> 0 [] a = "1" -> 1 [] a = "2" -> 2 [] a = "3" -> 3
    [] a = "5" -> 5 [] a = "9" -> 9

IsDigits(s) == s # <<>> /\ \A i \in 1..Len(s) : s[i] \in {"0", "1", "2", "3", "5", "9"}

RECURSIVE DecimalValue(_)
DecimalValue(s) ==
  IF s = <<>> THEN 0 ELSE 10 * DecimalValue(SubSeq(s, 1, Len(s) - 1)) + DigitValue(s[Len(s)])

\* Number(v) for null and for text of signs, digits and other characters.
Number(v) ==
  LET s == IF v = Null THEN <<>> ELSE trim(v)
  IN  IF s = <<>> THEN [nan |-> FALSE, val |-> 0]
      ELSE IF IsDigits(s) THEN [nan |-> FALSE, val |-> DecimalValue(s)]
      ELSE IF Head(s) = "-" /\ IsDigits(Tail(s)) THEN [nan |-> FALSE, val |-> 0 - DecimalValue(Tail(s))]
      ELSE [nan |-> TRUE, val |-> 0]

\* Number(r.numbering) || 0
NumberOrZero(v) == IF Number(v).nan THEN 0 ELSE Number(v).val

\* v || ''
OrEmpty(v) == IF Truthy(v) THEN v ELSE <<>>

\* `${subset}||${cardType}`
GroupKey(subset, cardType) == subset \o <<"||">> \o cardType

\* group.set(key, (group.get(key) || 0) + n) on a Map kept in insertion order.
MapAdd(group, key, n) ==
  IF \E k \in 1..Len(group) : group[k].key = key
  THEN [k \in 1..Len(group) |->
          IF group[k].key = key THEN [group[k] EXCEPT !.total = @ + n] ELSE group[k]]
  ELSE Append(group, [key |-> key, total |-> n])

\* for (const r of rows) { ... }
RECURSIVE GroupLoop(_, _)
GroupLoop(rows, acc) ==
  IF rows = <<>> THEN acc
  ELSE LET r == Head(rows)
           subset == OrEmpty(r.subset)
           cardType == OrEmpty(r.card_type)
           n == NumberOrZero(r.numbering)
           sLc == toLowerCase(subset)
       IN  GroupLoop(Tail(rows),
             [group |-> MapAdd(acc.group, GroupKey(subset, cardType), n),
              totalNumbered |-> acc.totalNumbered + n,
              autographNumbered |->
                acc.autographNumbered + (IF sLc = <<"autograph">> THEN n ELSE 0),
              autographRelicNumbered |->
                acc.autographRelicNumbered
                  + (IF sLc = <<"autograph", " ", "relic">> THEN n ELSE 0)])

\* The position of the first "||" of a key, Len + 1 when it has none.
FirstBar(k) ==
  IF \E i \in 1..Len(k) : k[i] = "||"
  THEN CHOOSE i \in 1..Len(k) : k[i] = "||" /\ \A j \in 1..(i - 1) : k[j] # "||"
  ELSE Len(k) + 1

\* const [subset, cardType] = k.split('||'); return { subset, cardType, total }
BreakdownEntry(entry) ==
  LET k == entry.key
      rest == SubSeq(k, FirstBar(k) + 1, Len(k))
  IN  [subset |-> SubSeq(k, 1, FirstBar(k) - 1),
       cardType |-> SubSeq(rest, 1, FirstBar(rest) - 1),
       total |-> entry.total]

\* new Set(breakdown.map(b => (b.cardType || '').trim())).size
cardTypeCountOf(breakdown) ==
  Cardinality({trim(OrEmpty(breakdown[k].cardType)) : k \in 1..Len(breakdown)})

\* Faulty variant of ZeroSummary: the missing data is answered with the error
\* response.
ZeroSummaryAsError(athlete, isRookie) ==
  [NoResponse EXCEPT !.status = 500]

\* The zero-filled response.
ZeroSummary(athlete, isRookie) ==
  [status |-> 200, athlete |-> athlete, isRookie |-> isRookie, cardTypeCount |-> 0,
   totalParallelCards |-> 0, autographCount |-> 0, autographRelicCount |-> 0,
   breakdown |-> <<>>]

\* The try block of the handler, on a store whose cards table exists.
AthleteSummary(store, athlete) ==
  LET schema == detectSchema(store)
      isRookie == isRookieOf(store, schema.rookieCol, athlete)
      rows == JoinRows(store, schema.numberingCol, athlete, 1)
      acc == GroupLoop(rows, [group |-> <<>>, totalNumbered |-> 0,
                              autographNumbered |-> 0, autographRelicNumbered |-> 0])
      breakdown == [k \in 1..Len(acc.group) |-> BreakdownEntry(acc.group[k])]
  IN  IF schema.numberingCol = NoCol THEN ZeroSummary(athlete, isRookie)
      ELSE IF rows = <<>> THEN ZeroSummary(athlete, isRookie)
      ELSE [status |-> 200, athlete |-> athlete, isRookie |-> isRookie,
            cardTypeCount |-> cardTypeCountOf(breakdown),
            totalParallelCards |-> acc.totalNumbered,
            autographCount |-> acc.autographNumbered,
            autographRelicCount |-> acc.autographRelicNumbered,
            breakdown |-> breakdown]

------------------------------------------------------------------------------
(* Stores to query *)

MaxCards == 2
MaxParallels == 2

\* Cards as the versions of the ingestion wrote them.
CardPool ==
  { [athlete_name |-> <<"Jane">>, rookie |-> <<"ROOKIE", " ">>,
     subset |-> <<"Autograph">>, card_type |-> <<"Base">>],
    [athlete_name |-> <<"JANE">>, rookie |-> <<>>,
     subset |-> <<"AUTOGRAPH", " ", "Relic">>, card_type |-> <<>>],
    [athlete_name |-> <<"Jane">>, rookie |-> Null,
     subset |-> <<"Base">>, card_type |-> <<" ">>],
    [athlete_name |-> <<"Bo">>, rookie |-> <<"Rookie">>,
     subset |-> <<"Base">>, card_type |-> <<"Insert">>] }

\* Numbering cells as ingestion stores them: raw text.
NumberingPool == { <<"2", "5">>, <<"-", "5">>, <<"/", "9", "9">> }

\* The column sets of stores: the current ones, the older names, and
\* stores without the rookie or the numbering column or the parallels table.
Schemas ==
  { [cardsCols |-> CardsColumns, parCols |-> ParallelsColumns],
    [cardsCols |-> (CardsColumns \ {"rookie"}) \cup {"is_rookie"},
     parCols |-> (ParallelsColumns \ {"parallel_numbering"}) \cup {"numbering"}],
    [cardsCols |-> CardsColumns \ {"rookie"},
     parCols |-> ParallelsColumns \ {"parallel_numbering"}],
    [cardsCols |-> CardsColumns \cup {"is_rookie"},
     parCols |-> ParallelsColumns \cup {"numbering"}],
    [cardsCols |-> (CardsColumns \ {"rookie"}) \cup {"Rookie"}, parCols |-> {}] }

\* A cards row of a schema; where both rookie columns exist the older one
\* holds 'Rookie'.
CardRow(schema, id, c) ==
  [col \in schema.cardsCols |->
     CASE col = "id" -> id
       [] col = "card_number" -> Null
       [] col = "athlete_name" -> c.athlete_name
       [] col = "subset" -> c.subset
       [] col = "card_type" -> c.card_type
       [] col = "is_rookie" ->
            IF has(schema.cardsCols, "rookie") THEN <<"Rookie">> ELSE c.rookie
       [] OTHER -> c.rookie]

\* A parallels row of a schema; where both numbering columns exist the
\* older one holds '9'.
ParallelRow(schema, id, p) ==
  [col \in schema.parCols |->
     CASE col = "id" -> id
       [] col = "card_id" -> p.card_id
       [] col = "parallel_name" -> Gold
       [] col = "numbering" ->
            IF has(schema.parCols, "parallel_numbering") THEN <<"9">> ELSE p.numbering
       [] OTHER -> p.numbering]

\* Parallels are stored in the order of their cards.
ParallelSeqs ==
  {ps \in SeqsUpTo([card_id : 1..MaxCards, numbering : NumberingPool], MaxParallels) :
     \A k \in 1..(Len(ps) - 1) : ps[k].card_id <= ps[k + 1].card_id}

QueryStore(schema, cs, ps) ==
  [exists |-> TRUE, cardsCols |-> schema.cardsCols, parCols |-> schema.parCols,
   cards |-> [i \in 1..Len(cs) |-> CardRow(schema, i, cs[i])],
   parallels |-> IF schema.parCols = {} THEN <<>>
                 ELSE [k \in 1..Len(ps) |-> ParallelRow(schema, k, ps[k])]]

\* Requests for an athlete on the store their sport and set name; also a
\* request without athlete and a request that names no store.
InitSummary ==
  /\ InitServer
  /\ scan = NoScan
  /\ query \in
       {[store |-> QueryStore(schema, cs, ps), athlete |-> <<"jane">>,
         done |-> FALSE, res |-> NoResponse] :
          schema \in Schemas, cs \in SeqsUpTo(CardPool, MaxCards), ps \in ParallelSeqs}
       \cup {[store |-> NoStore, athlete |-> <<"jane">>, done |-> FALSE, res |-> NoResponse],
             [store |-> EmptyStore, athlete |-> <<>>, done |-> FALSE, res |-> NoResponse]}

\* GET /api/athlete-summary?sport=..&set=..&athlete=..
GetAthleteSummary ==
  /\ ~query.done
  /\ query' = [query EXCEPT !.done = TRUE,
                 !.res = IF query.athlete = <<>> THEN [NoResponse EXCEPT !.status = 400]
                         ELSE IF ~query.store.exists THEN [NoResponse EXCEPT !.status = 404]
                         ELSE AthleteSummary(query.store, query.athlete)]
  /\ UNCHANGED <<data, up, uploaded, listed, scan>>

NextSummary == GetAthleteSummary

SpecSummary == InitSummary /\ [][NextSummary]_vars

------------------------------------------------------------------------------
(* Athlete summary: properties *)

RECURSIVE SumTotals(_)
SumTotals(breakdown) ==
  IF breakdown = <<>> THEN 0 ELSE Head(breakdown).total + SumTotals(Tail(breakdown))

\* C5: totalParallelCards is the sum of the totals of the breakdown
\* entries, and autographCount + autographRelicCount <= totalParallelCards,
\* whatever numbering text is stored.
C5_TotalsConsistent ==
  query.done =>
    /\ query.res.totalParallelCards = SumTotals(query.res.breakdown)
    /\ query.res.autographCount + query.res.autographRelicCount
         <= query.res.totalParallelCards

\* C6: cardTypeCount is the number of distinct card types of the breakdown
\* entries that are non-empty after trimming; it is 0 when every matching
\* card has an empty or missing card type.
C6_CountsNonEmptyCardTypes ==
  query.done =>
    query.res.cardTypeCount =
      Cardinality({trim(query.res.breakdown[k].cardType) :
                     k \in 1..Len(query.res.breakdown)} \ {<<>>})

\* The rookie column of a store: rookie, else is_rookie, whatever the case
\* of the column's name.
RookieValues(store, athlete) ==
  LET named(n) == {c \in store.cardsCols : LowerName(c) = n}
      cols == IF named("rookie") # {} THEN named("rookie") ELSE named("is_rookie")
  IN  {store.cards[i][c] :
         c \in cols,
         i \in {j \in 1..Len(store.cards) :
                  /\ store.cards[j].athlete_name # Null
                  /\ toLowerCase(store.cards[j].athlete_name) = toLowerCase(athlete)}}

\* C7: isRookie is true exactly when some Card of the athlete, the name
\* matched without regard to case, has a rookie-column value that trimmed
\* and lowercased is "rookie"; it is false without a rookie column; the
\* Parallels and the numbering column play no part.
C7_RookieIffSomeCard ==
  query.done =>
    (query.res.isRookie <=>
       \E v \in RookieValues(query.store, query.athlete) :
         v # Null /\ toLowerCase(trim(v)) = <<"rookie">>)

\* The athlete is a rookie by a Card whose value is 'ROOKIE ' and which has
\* two Parallels.
C7_Witness ==
  /\ query.done
  /\ query.res.isRookie
  /\ \E i \in 1..Len(query.store.cards) :
       /\ toLowerCase(query.store.cards[i].athlete_name) = toLowerCase(query.athlete)
       /\ <<"ROOKIE", " ">> \in RookieValues(query.store, query.athlete)
       /\ Cardinality({k \in 1..Len(query.store.parallels) :
                         query.store.parallels[k].card_id = query.store.cards[i].id}) >= 2
  /\ \A v \in RookieValues(query.store, query.athlete) : v = <<"ROOKIE", " ">>

\* C8: the summary of an existing store is never an error for missing
\* data: with no matching Card it is the zero-filled response with isRookie
\* false, and with no numbering column, under either name, its totals are
\* zero and its breakdown is empty.
C8_ZeroFilledNotError ==
  (query.done /\ query.store.exists /\ query.athlete # <<>>) =>
    LET noCards == \A i \in 1..Len(query.store.cards) :
                     \/ query.store.cards[i].athlete_name = Null
                     \/ toLowerCase(query.store.cards[i].athlete_name) # toLowerCase(query.athlete)
        noNumbering == query.store.parCols \cap {"parallel_numbering", "numbering"} = {}
        zeros == /\ query.res.cardTypeCount = 0
                 /\ query.res.totalParallelCards = 0
                 /\ query.res.autographCount = 0
                 /\ query.res.autographRelicCount = 0
                 /\ query.res.breakdown = <<>>
    IN  /\ query.res.status = 200
        /\ noCards => (zeros /\ ~query.res.isRookie)
        /\ noNumbering => zeros

\* A store with Cards of the athlete and Parallels but no numbering
\* column, answered with zeros.
C8_Witness ==
  /\ query.done
  /\ query.store.parCols \cap {"parallel_numbering", "numbering"} = {}
  /\ query.store.parallels # <<>>
  /\ \E i \in 1..Len(query.store.cards) :
       toLowerCase(query.store.cards[i].athlete_name) = toLowerCase(query.athlete)
  /\ query.res.status = 200
  /\ query.res.breakdown = <<>>

====
